---- MODULE Spec2Model ----
(***************************************************************************)
(* Model of the getmethatdawg build pipeline                               *)
(*   getmethatdawg-sdk/getmethatdawg/__init__.py  (expose, _registry)      *)
(*   getmethatdawg-sdk/getmethatdawg/builder.py   (GetMeThatDawgBuilder)   *)
(* Spec          the build: main(), build() and the files it writes        *)
(* ClassifySpec  the heuristic applied to one function definition          *)
(* PartitionSpec _categorize_env_vars applied to one mapping               *)
(* ServeSpec     a route of the generated flask_app.py answering requests  *)
(* LibrarySpec   a program that constructs builders and calls build()      *)
(* FilesSpec     the paths one build reads, writes and creates             *)
(* Text (names, paths, methods, keys) is a sequence of one-character       *)
(* strings so that lower(), upper(), replace() and substring tests are     *)
(* computed, not assumed.                                                  *)
(***************************************************************************)
EXTENDS Integers, Sequences, FiniteSets, TLC

\* ------------------------------------------------------------------ bounds
\* builders constructed in one behaviour
MaxBuilds == 2

\* parameters of a function given to the heuristic
MaxArgs == 2

\* entries of a mapping given to _categorize_env_vars
MaxEntries == 2

\* build() calls on one builder object
MaxCalls == 2

\* requests sent to the generated server in one behaviour
MaxRequests == 2

\* ------------------------------------------------------------ text helpers
LowerChars == <<"a","b","c","d","e","f","g","h","i","j","k","l","m",
                "n","o","p","q","r","s","t","u","v","w","x","y","z">>
UpperChars == <<"A","B","C","D","E","F","G","H","I","J","K","L","M",
                "N","O","P","Q","R","S","T","U","V","W","X","Y","Z">>

\* str.lower() on one character
LowerChar(c) ==
    IF \E i \in 1..26 : UpperChars[i] = c
    THEN LowerChars[CHOOSE i \in 1..26 : UpperChars[i] = c]
    ELSE c

\* str.upper() on one character
UpperChar(c) ==
    IF \E i \in 1..26 : LowerChars[i] = c
    THEN UpperChars[CHOOSE i \in 1..26 : LowerChars[i] = c]
    ELSE c

\* str.lower()
Lower(s) == [i \in 1..Len(s) |-> LowerChar(s[i])]

\* str.upper()
Upper(s) == [i \in 1..Len(s) |-> UpperChar(s[i])]

\* str.replace('_', '-')
ReplaceUnderscore(s) == [i \in 1..Len(s) |-> IF s[i] = "_" THEN "-" ELSE s[i]]

\* str.startswith(p)
StartsWith(s, p) == Len(p) <= Len(s) /\ SubSeq(s, 1, Len(p)) = p

\* p in s
Contains(s, p) ==
    \E i \in 1..(Len(s) + 1) :
        i + Len(p) - 1 <= Len(s) /\ SubSeq(s, i, i + Len(p) - 1) = p

\* s.split(sep)[0]
RECURSIVE Before(_, _)
Before(s, sep) ==
    IF s = <<>> \/ StartsWith(s, sep)
    THEN <<>>
    ELSE <<Head(s)>> \o Before(Tail(s), sep)

\* the elements of a sequence
Range(s) == {s[i] : i \in 1..Len(s)}

\* Python's None
None == <<"None">>

\* ------------------------------------------------- heuristic classification
skip_patterns ==
    { <<"m","a","i","n">>, <<"s","e","t","u","p">>, <<"i","n","i","t">>,
      <<"t","e","s","t","_">>, <<"v","a","l","i","d","a","t","e">>,
      <<"p","a","r","s","e">>, <<"f","o","r","m","a","t">>,
      <<"p","r","i","n","t">>, <<"l","o","g">>, <<"d","e","b","u","g">>,
      <<"e","r","r","o","r">>, <<"w","a","r","n">> }

GetPrefixes ==
    { <<"g","e","t">>, <<"l","i","s","t">>, <<"s","h","o","w">>,
      <<"f","i","n","d">>, <<"s","e","a","r","c","h">>,
      <<"s","e","l","e","c","t">>, <<"l","o","a","d">> }

GetInfixes ==
    { <<"g","e","t">>, <<"s","e","a","r","c","h">>, <<"s","e","l","e","c","t">> }

PostPrefixes ==
    { <<"c","r","e","a","t","e">>, <<"a","d","d">>, <<"s","a","v","e">>,
      <<"u","p","d","a","t","e">>, <<"d","e","l","e","t","e">>,
      <<"g","e","n","e","r","a","t","e">>, <<"p","r","o","c","e","s","s">>,
      <<"h","a","n","d","l","e">>, <<"e","x","e","c","u","t","e">> }

PostInfixes ==
    { <<"s","a","v","e">>, <<"g","e","n","e","r","a","t","e">>,
      <<"p","r","o","c","e","s","s">> }

GET == <<"G","E","T">>
POST == <<"P","O","S","T">>

\* the path built from the name as written, without lower()
KebabPathCased(func_name) == <<"/">> \o ReplaceUnderscore(func_name)

\* f"/{func_name.lower().replace('_', '-')}"
KebabPath(func_name) == <<"/">> \o ReplaceUnderscore(Lower(func_name))

\* _determine_http_method_and_path: <<method, path>> or <<None, None>>
_determine_http_method_and_path(func_name, nargs, return_type) ==
    LET func_lower == Lower(func_name)
        path == KebabPath(func_name)
    IN  IF nargs <= 1
           /\ ( (\E p \in GetPrefixes : StartsWith(func_lower, p))
                \/ (\E p \in GetInfixes : Contains(func_lower, p)) )
        THEN <<GET, path>>
        ELSE IF nargs > 1
                \/ (\E p \in PostPrefixes : StartsWith(func_lower, p))
                \/ (\E p \in PostInfixes : Contains(func_lower, p))
        THEN <<POST, path>>
        ELSE IF return_type \in { <<"D","i","c","t">>, <<"L","i","s","t">>,
                                  <<"d","i","c","t">>, <<"l","i","s","t">> }
                \/ Contains(return_type, <<"D","i","c","t">>)
        THEN <<IF nargs <= 1 THEN GET ELSE POST, path>>
        ELSE IF nargs > 0 /\ Len(func_name) > 3
        THEN <<IF nargs = 1 THEN GET ELSE POST, path>>
        ELSE <<None, None>>

\* _analyze_function_for_endpoint that matches the denylist against the name
\* as written, without lower()
_analyze_function_for_endpoint_cased(node) ==
    IF StartsWith(node.name, <<"_">>)
    THEN <<>>
    ELSE IF \E p \in skip_patterns : Contains(node.name, p)
    THEN <<>>
    ELSE LET mp == _determine_http_method_and_path(node.name, node.nargs, node.ret)
         IN  IF mp[1] # None /\ mp[2] # None
             THEN << [func_name |-> node.name, path |-> mp[2], method |-> mp[1],
                      nargs |-> node.nargs, return_type |-> node.ret] >>
             ELSE <<>>

\* _analyze_function_for_endpoint: <<AutoDetectedEndpoint>>, or <<>> for None
_analyze_function_for_endpoint(node) ==
    IF StartsWith(node.name, <<"_">>)
    THEN <<>>
    ELSE IF \E p \in skip_patterns : Contains(Lower(node.name), p)
    THEN <<>>
    ELSE LET mp == _determine_http_method_and_path(node.name, node.nargs, node.ret)
         IN  IF mp[1] # None /\ mp[2] # None
             THEN << [func_name |-> node.name, path |-> mp[2], method |-> mp[1],
                      nargs |-> node.nargs, return_type |-> node.ret] >>
             ELSE <<>>

\* ------------------------------------------------------------ configuration
\* a Python dict is an insertion-ordered sequence of <<key, value>> pairs
DictKeys(d) == {d[i][1] : i \in 1..Len(d)}

DictGet(d, k) ==
    IF k \in DictKeys(d)
    THEN d[CHOOSE i \in 1..Len(d) : d[i][1] = k][2]
    ELSE None

\* d[k] = v
DictSet(d, k, v) ==
    IF k \in DictKeys(d)
    THEN [i \in 1..Len(d) |-> IF d[i][1] = k THEN <<k, v>> ELSE d[i]]
    ELSE Append(d, <<k, v>>)

\* a file that does not exist
NoFile == [exists |-> FALSE, lines |-> <<>>]

\* a file holding these lines
File(lines) == [exists |-> TRUE, lines |-> lines]

RECURSIVE ReadEnvLines(_, _)
ReadEnvLines(lines, env_vars) ==
    IF lines = <<>>
    THEN env_vars
    ELSE LET key == Head(lines)[1]
             value == Head(lines)[2]
         IN  ReadEnvLines(Tail(lines),
                          IF key # <<>> /\ value # <<>>
                          THEN DictSet(env_vars, key, value)
                          ELSE env_vars)

\* _read_env_file: the KEY=value lines of the first .env found, as a dict
_read_env_file(file) == IF ~file.exists THEN <<>> ELSE ReadEnvLines(file.lines, <<>>)

secret_patterns ==
    { <<"A","P","I","_","K","E","Y">>, <<"T","O","K","E","N">>,
      <<"S","E","C","R","E","T">>, <<"P","A","S","S","W","O","R","D">>,
      <<"P","R","I","V","A","T","E","_","K","E","Y">>,
      <<"C","R","E","D","E","N","T","I","A","L">>,
      <<"C","L","I","E","N","T","_","S","E","C","R","E","T">>,
      <<"A","U","T","H","_","K","E","Y">>,
      <<"A","C","C","E","S","S","_","T","O","K","E","N">>,
      <<"R","E","F","R","E","S","H","_","T","O","K","E","N">> }

\* is_secret that matches the patterns against the key as written
is_secret_cased(key) == \E p \in secret_patterns : Contains(key, p)

\* is_secret of _categorize_env_vars
is_secret(key) == \E p \in secret_patterns : Contains(Upper(key), p)

IsSecretPair(kv) == is_secret(kv[1])

IsRegularPair(kv) == ~is_secret(kv[1])

\* _categorize_env_vars: (secrets, regular_env)
_categorize_env_vars(env_vars) ==
    [secrets |-> SelectSeq(env_vars, IsSecretPair),
     regular_env |-> SelectSeq(env_vars, IsRegularPair)]

WANDB_API_KEY == <<"W","A","N","D","B","_","A","P","I","_","K","E","Y">>

\* _is_wandb_enabled; os_wandb: WANDB_API_KEY is set in the process environment
_is_wandb_enabled(envfile, os_wandb) ==
    LET v == DictGet(_read_env_file(envfile), WANDB_API_KEY)
    IN  (v # None /\ v # <<>>) \/ os_wandb

\* ------------------------------------------------------------- source files
\* A source file: syntax_ok (ast.parse / compile succeeds), its function
\* definitions in source order, and exec_raises (the module body raises after
\* its definitions have been executed).  A definition carries its decorators
\* @getmethatdawg.expose(...) listed top to bottom.
Def(name, nargs, ret, scope, exposes) ==
    [name |-> name, nargs |-> nargs, ret |-> ret, scope |-> scope,
     exposes |-> exposes]

ExposeCall(method, path) == [method |-> method, path |-> path, auth |-> None]

\* style: how the file writes its decorators: "dotted", import getmethatdawg
\* and @getmethatdawg.expose(...) on one line; "multiline", the same call
\* closed on a line of its own; "alias", from getmethatdawg import expose and
\* @expose(...)
StyledSource(style, syntax_ok, exec_raises, defs) ==
    [style |-> style, syntax_ok |-> syntax_ok, exec_raises |-> exec_raises,
     defs |-> defs]

Source(syntax_ok, exec_raises, defs) ==
    StyledSource("dotted", syntax_ok, exec_raises, defs)

RetAny == <<"A","n","y">>
RetDict == <<"D","i","c","t">>

get_u == <<"g","e","t","_","u">>
Get_u == <<"G","e","t","_","u">>
save == <<"s","a","v","e">>
helper == <<"_","h">>
PathX == <<"/","x">>

SrcPlain ==
    Source(TRUE, FALSE,
           << Def(get_u, 1, RetAny, "module", <<ExposeCall(<<"g","e","t">>, None)>>) >>)

SrcCase ==
    Source(TRUE, FALSE,
           << Def(get_u, 1, RetAny, "module", <<ExposeCall(GET, None)>>),
              Def(Get_u, 1, RetAny, "module", <<ExposeCall(GET, None)>>) >>)

SrcTwice ==
    Source(TRUE, FALSE,
           << Def(get_u, 1, RetAny, "module",
                  <<ExposeCall(GET, None), ExposeCall(<<"p","o","s","t">>, None)>>) >>)

SrcSamePath ==
    Source(TRUE, FALSE,
           << Def(get_u, 1, RetAny, "module", <<ExposeCall(GET, PathX)>>),
              Def(save, 2, RetDict, "module", <<ExposeCall(GET, PathX)>>) >>)

SrcMethods ==
    Source(TRUE, FALSE,
           << Def(get_u, 1, RetAny, "class", <<ExposeCall(GET, None)>>),
              Def(get_u, 1, RetAny, "class", <<ExposeCall(GET, None)>>) >>)

SrcNone ==
    Source(TRUE, FALSE, << Def(helper, 0, RetAny, "module", <<>>) >>)

SrcBad ==
    Source(FALSE, FALSE,
           << Def(save, 2, RetAny, "module", <<ExposeCall(POST, None)>>) >>)

SrcRaise ==
    Source(TRUE, TRUE,
           << Def(save, 2, RetAny, "module", <<ExposeCall(POST, None)>>) >>)

Sources ==
    {SrcPlain, SrcCase, SrcTwice, SrcSamePath, SrcMethods, SrcNone, SrcBad, SrcRaise}

\* expose() called without arguments, next to a private helper
SrcDefault ==
    Source(TRUE, FALSE,
           << Def(get_u, 1, RetAny, "module",
                  <<ExposeCall(None, None), ExposeCall(<<"p","o","s","t">>, PathX)>>),
              Def(helper, 0, RetAny, "module", <<>>) >>)

\* the decorator call is closed on a line of its own
SrcMultiline ==
    StyledSource("multiline", TRUE, FALSE,
                 << Def(save, 2, RetDict, "module", <<ExposeCall(POST, PathX)>>) >>)

\* from getmethatdawg import expose
SrcAlias ==
    StyledSource("alias", TRUE, FALSE,
                 << Def(get_u, 1, RetAny, "module", <<ExposeCall(GET, None)>>) >>)

\* a method of a class that stands before a module-level function
SrcNested ==
    Source(TRUE, FALSE,
           << Def(get_u, 1, RetAny, "class", <<>>),
              Def(save, 2, RetAny, "module", <<ExposeCall(POST, None)>>) >>)

\* an exposed function and, after it, a method of the same name
SrcShadow ==
    Source(TRUE, FALSE,
           << Def(get_u, 1, RetAny, "module", <<ExposeCall(GET, None)>>),
              Def(get_u, 1, RetAny, "class", <<>>) >>)

\* the source files of a program that calls the builder as a library
LibSources ==
    {SrcPlain, SrcTwice, SrcSamePath, SrcNone, SrcBad, SrcRaise, SrcDefault,
     SrcMultiline, SrcAlias, SrcNested, SrcShadow}

\* stem of the source file's path
SourceStem == <<"m","y","_","a">>

\* --------------------------------------------------- declarative _registry
\* expose that keeps the method string as the caller wrote it
expose_method_as_given(call, func_name) ==
    [func_name |-> func_name,
     method |-> IF call.method = None THEN GET ELSE call.method,
     path |-> IF call.path # None THEN call.path ELSE <<"/">> \o func_name,
     auth |-> call.auth]

\* expose(method, path, auth)(func): the Endpoint handed to _registry.register;
\* a method or path of None stands for an argument the caller left out
expose(call, func_name) ==
    [func_name |-> func_name,
     method |-> Upper(IF call.method = None THEN GET ELSE call.method),
     path |-> IF call.path # None THEN call.path ELSE <<"/">> \o func_name,
     auth |-> call.auth]

\* a register that puts the new endpoint in front of the earlier ones
register_first(endpoints, endpoint) == <<endpoint>> \o endpoints

\* EndpointRegistry.register: self._endpoints.append(endpoint)
register(endpoints, endpoint) == Append(endpoints, endpoint)

\* EndpointRegistry.get_endpoints: a copy of the list
get_endpoints(endpoints) == [i \in 1..Len(endpoints) |-> endpoints[i]]

\* decorators are applied bottom-up: the last one listed registers first
RECURSIVE RegisterDecorators(_, _, _)
RegisterDecorators(exposes, func_name, endpoints) ==
    IF exposes = <<>>
    THEN endpoints
    ELSE RegisterDecorators(SubSeq(exposes, 1, Len(exposes) - 1), func_name,
                            register(endpoints,
                                     expose(exposes[Len(exposes)], func_name)))

\* spec.loader.exec_module: the _registry after the module body has run; bodies
\* of nested functions are not executed
RECURSIVE ExecModule(_, _)
ExecModule(defs, endpoints) ==
    IF defs = <<>>
    THEN endpoints
    ELSE ExecModule(Tail(defs),
                    IF Head(defs).scope \in {"module", "class"}
                    THEN RegisterDecorators(Head(defs).exposes, Head(defs).name, endpoints)
                    ELSE endpoints)

\* ------------------------------------------------------ heuristic strategy
IsDepth0(d) == d.scope = "module"

IsDepth1(d) == d.scope # "module"

\* ast.walk is breadth-first: module-level definitions, then the ones nested
\* one level down (methods, inner functions)
AstWalk(defs) == SelectSeq(defs, IsDepth0) \o SelectSeq(defs, IsDepth1)

\* the loop of auto_detect_endpoints over the FunctionDef nodes
RECURSIVE DetectAll(_, _)
DetectAll(nodes, auto_detected) ==
    IF nodes = <<>>
    THEN auto_detected
    ELSE DetectAll(Tail(nodes), auto_detected \o _analyze_function_for_endpoint(Head(nodes)))

\* auto_detect_endpoints: self.auto_detected_endpoints afterwards
auto_detect_endpoints(src, auto_detected) ==
    IF ~src.syntax_ok
    THEN auto_detected
    ELSE DetectAll(AstWalk(src.defs), auto_detected)

\* the conversion loop of analyze_source (Endpoint with a mock function)
MockEndpoint(a) ==
    [func_name |-> a.func_name, method |-> a.method, path |-> a.path, auth |-> None]

ConvertAutoDetected(auto_detected) ==
    [i \in 1..Len(auto_detected) |-> MockEndpoint(auto_detected[i])]

\* ---------------------------------------------------------------- renderers
\* The text of a source file, line by line: the getmethatdawg import when a
\* decorator uses it, each definition's decorator lines followed by its def
\* line, and what follows the definitions.
Line(kind, name, indent) == [kind |-> kind, name |-> name, indent |-> indent]

IndentOf(d) == IF d.scope = "module" THEN 0 ELSE 4

\* the lines of one decorator call
DecoratorLines(style, name, indent) ==
    CASE style = "multiline" ->
             << Line("decorator", name, indent), Line("decorator_close", name, indent) >>
      [] style = "alias" -> << Line("alias_decorator", name, indent) >>
      [] OTHER -> << Line("decorator", name, indent) >>

RECURSIVE Repeat(_, _)
Repeat(lines, n) == IF n = 0 THEN <<>> ELSE lines \o Repeat(lines, n - 1)

RECURSIVE DefLines(_, _)
DefLines(defs, style) ==
    IF defs = <<>>
    THEN <<>>
    ELSE LET d == Head(defs)
         IN  Repeat(DecoratorLines(style, d.name, IndentOf(d)), Len(d.exposes))
             \o << Line("def", d.name, IndentOf(d)) >>
             \o DefLines(Tail(defs), style)

SourceLines(src) ==
    (IF \E i \in 1..Len(src.defs) : src.defs[i].exposes # <<>>
     THEN << Line(IF src.style = "alias" THEN "from_import" ELSE "import", <<>>, 0) >>
     ELSE <<>>)
    \o DefLines(src.defs, src.style)
    \o (IF src.syntax_ok THEN <<>> ELSE << Line("malformed", <<>>, 0) >>)
    \o (IF src.exec_raises THEN << Line("raise", <<>>, 0) >> ELSE <<>>)

\* line.strip(): the text of a line without its indentation, up to the
\* parenthesis that opens a parameter or argument list
LineText(line) ==
    CASE line.kind = "import" -> <<"i","m","p","o","r","t"," ","g","e","t","m","e","t","h","a","t","d","a","w","g">>
      [] line.kind = "from_import" -> <<"f","r","o","m"," ","g","e","t","m","e","t","h","a","t","d","a","w","g"," ","i","m","p","o","r","t"," ","e","x","p","o","s","e">>
      [] line.kind = "decorator" -> <<"@","g","e","t","m","e","t","h","a","t","d","a","w","g",".","e","x","p","o","s","e","(">>
      [] line.kind = "decorator_close" -> <<")">>
      [] line.kind = "alias_decorator" -> <<"@","e","x","p","o","s","e","(">>
      [] line.kind = "def" -> <<"d","e","f"," ">> \o line.name \o <<"(">>
      [] line.kind = "malformed" -> <<"d","e","f"," ","(">>
      [] line.kind = "raise" -> <<"r","a","i","s","e"," ","R","u","n","t","i","m","e","E","r","r","o","r","(">>
      [] line.kind = "weave.op" -> <<"@","w","e","a","v","e",".","o","p","(",")">>
      [] OTHER -> <<"i","m","p","o","r","t"," ","w","e","a","v","e">>

\* 'import getmethatdawg' in line or 'from getmethatdawg' in line
IsGetmethatdawgImport(line) ==
    \/ Contains(LineText(line), <<"i","m","p","o","r","t"," ","g","e","t","m","e","t","h","a","t","d","a","w","g">>)
    \/ Contains(LineText(line), <<"f","r","o","m"," ","g","e","t","m","e","t","h","a","t","d","a","w","g">>)

\* line.strip().startswith('@getmethatdawg.expose')
IsExposeDecorator(line) == StartsWith(LineText(line), <<"@","g","e","t","m","e","t","h","a","t","d","a","w","g",".","e","x","p","o","s","e">>)

\* a definition line that may get the weave decorator
IsPublicDef(line) ==
    /\ StartsWith(LineText(line), <<"d","e","f"," ">>)
    /\ ~StartsWith(LineText(line), <<"d","e","f"," ","_">>)
    /\ ~StartsWith(LineText(line), <<"d","e","f"," ","_","_">>)

\* line.strip().split('(')[0].replace('def ', '')
FuncNameOf(line) ==
    LET head == Before(LineText(line), <<"(">>)
    IN  IF StartsWith(head, <<"d","e","f"," ">>) THEN SubSeq(head, 5, Len(head)) ELSE head

\* the per-line loop of copy_source_file
RECURSIVE ProcessLines(_, _, _)
ProcessLines(lines, b, processed) ==
    IF lines = <<>>
    THEN processed
    ELSE LET line == Head(lines)
             func_name == FuncNameOf(line)
             is_endpoint ==
                 (\E i \in 1..Len(b.auto_detected_endpoints) :
                      b.auto_detected_endpoints[i].func_name = func_name)
                 \/ (\E i \in 1..Len(b.endpoints) :
                      b.endpoints[i].func_name = func_name)
         IN  IF ~b.auto_detect /\ (IsGetmethatdawgImport(line) \/ IsExposeDecorator(line))
             THEN ProcessLines(Tail(lines), b, processed)
             ELSE ProcessLines(Tail(lines), b,
                      processed
                      \o (IF b.wandb_enabled /\ IsPublicDef(line) /\ is_endpoint
                          THEN << Line("weave.op", <<>>, line.indent) >>
                          ELSE <<>>)
                      \o << line >>)

\* copy_source_file: the lines written to user_module.py
processed_lines(src, b) ==
    ProcessLines(SourceLines(src), b,
                 IF b.wandb_enabled THEN << Line("import weave", <<>>, 0) >> ELSE <<>>)

\* generate_flask_app whose health listing leaves out the last endpoint
template_short_listing(b) ==
    [weave_init |-> b.wandb_enabled,
     routes |-> [i \in 1..Len(b.endpoints) |->
                    [path |-> b.endpoints[i].path,
                     method |-> b.endpoints[i].method,
                     func_name |-> b.endpoints[i].func_name]],
     health |-> [i \in 1..(Len(b.endpoints) - 1) |->
                    [method |-> b.endpoints[i].method,
                     path |-> b.endpoints[i].path]]]

\* generate_flask_app: the text of flask_app.py, by its variable parts
template(b) ==
    [weave_init |-> b.wandb_enabled,
     routes |-> [i \in 1..Len(b.endpoints) |->
                    [path |-> b.endpoints[i].path,
                     method |-> b.endpoints[i].method,
                     func_name |-> b.endpoints[i].func_name]],
     health |-> [i \in 1..Len(b.endpoints) |->
                    [method |-> b.endpoints[i].method,
                     path |-> b.endpoints[i].path]]]

\* generate_dockerfile: a fixed text
dockerfile_content == "FROM python:3.11-slim ... CMD [python, flask_app.py]"

\* str.strip() for blanks
RECURSIVE LStrip(_)
LStrip(s) == IF s # <<>> /\ Head(s) = " " THEN LStrip(Tail(s)) ELSE s

RECURSIVE RStrip(_)
RStrip(s) ==
    IF s # <<>> /\ s[Len(s)] = " " THEN RStrip(SubSeq(s, 1, Len(s) - 1)) ELSE s

Strip(s) == RStrip(LStrip(s))

ReqFlask == <<"f","l","a","s","k",">","=","2",".","0",".","0">>
ReqGunicorn == <<"g","u","n","i","c","o","r","n",">","=","2","0",".","0",".","0">>
ReqWeave == <<"w","e","a","v","e">>

\* existing_packages of generate_requirements
existing_packages(lines) ==
    { Strip(Lower(Before(Before(Before(lines[i], <<">","=">>), <<"=","=">>), <<"<">>))) :
        i \in { j \in 1..Len(lines) :
                  Strip(lines[j]) # <<>> /\ ~StartsWith(Strip(lines[j]), <<"#">>) } }

RECURSIVE AddMissing(_, _, _)
AddMissing(essential_reqs, existing, custom_reqs) ==
    IF essential_reqs = <<>>
    THEN custom_reqs
    ELSE LET req == Head(essential_reqs)
             package_name == Lower(Before(req, <<">","=">>))
         IN  AddMissing(Tail(essential_reqs), existing,
                        IF package_name \notin existing
                        THEN Append(custom_reqs, req)
                        ELSE custom_reqs)

\* generate_requirements: the lines written to requirements.txt
requirements_txt(reqfile, b) ==
    LET essential_reqs ==
            <<ReqFlask, ReqGunicorn>> \o (IF b.wandb_enabled THEN <<ReqWeave>> ELSE <<>>)
    IN  IF reqfile.exists
        THEN AddMissing(essential_reqs, existing_packages(reqfile.lines), reqfile.lines)
        ELSE essential_reqs

\* value.replace("'", "'\"'\"'")
RECURSIVE escaped_value(_)
escaped_value(v) ==
    IF v = <<>>
    THEN <<>>
    ELSE (IF Head(v) = "'" THEN <<"'", "\"", "'", "\"", "'">> ELSE <<Head(v)>>)
         \o escaped_value(Tail(v))

\* generate_secrets_file: the secrets written to secrets.json
secrets_data(env_vars) == _categorize_env_vars(env_vars).secrets

\* generate_deployment_script: the staging commands and the closing message
script_content(env_vars) ==
    LET secrets == _categorize_env_vars(env_vars).secrets
    IN  [cmds |-> [i \in 1..Len(secrets) |->
                      <<secrets[i][1], escaped_value(secrets[i][2])>>],
         has_secrets |-> secrets # <<>>]

PORT == <<"P","O","R","T">>

IsNotPort(kv) == Upper(kv[1]) # PORT

\* generate_fly_toml that writes the whole mapping into the [env] table
fly_toml_content_unfiltered(original_name, env_vars) ==
    [app |-> ReplaceUnderscore(original_name),
     env |-> << <<PORT, <<"5","0","0","0">> >> >> \o SelectSeq(env_vars, IsNotPort)]

\* generate_fly_toml: app name and the lines of the [env] table
fly_toml_content(original_name, env_vars) ==
    [app |-> ReplaceUnderscore(original_name),
     env |-> << <<PORT, <<"5","0","0","0">> >> >>
             \o SelectSeq(_categorize_env_vars(env_vars).regular_env, IsNotPort)]

\* ------------------------------------------------------------ input files
KeyApi == <<"a","p","i","_","k","e","y">>
KeyDebug == <<"D","E","B","U","G">>
KeyPortLower == <<"p","o","r","t">>
Val1 == <<"1">>
ValQuote == <<"s","'","k">>

EnvFiles ==
    { NoFile,
      File(<< <<KeyDebug, Val1>>, <<KeyPortLower, Val1>>, <<KeyApi, <<>> >> >>),
      File(<< <<KeyApi, ValQuote>>, <<PORT, Val1>>, <<KeyDebug, Val1>>,
              <<WANDB_API_KEY, Val1>> >>) }

ReqFiles ==
    { NoFile,
      File(<< <<"F","l","a","s","k","=","=","2">>, <<"#"," ","x">> >>) }

\* requirements files that name a needed package under each specifier form
LibReqFiles ==
    ReqFiles \cup
    { File(<< <<"f","l","a","s","k","~","=","2",".","0">> >>),
      File(<< <<"f","l","a","s","k",">","2">>, <<"g","u","n","i","c","o","r","n","!","=","1","9">> >>),
      File(<< <<"f","l","a","s","k","[","a","s","y","n","c","]",">","=","2">>, <<"g","u","n","i","c","o","r","n","<","2","1">> >>),
      File(<< <<"f","l","a","s","k">>, <<" ","G","u","n","i","c","o","r","n"," ",">","="," ","2","0">>, <<"w","e","a","v","e","=","=","0",".","5">> >>) }

\* ------------------------------------------- inputs of the heuristic strategy
\* ast.FunctionDef nodes as _analyze_function_for_endpoint reads them: the
\* name, the number of parameters other than self, the return annotation
NodeNames ==
    { <<"g","e","t","_","u","s","e","r">>,
      <<"s","a","v","e","_","o","r","d","e","r">>,
      <<"_","h","e","l","p","e","r">>,
      <<"G","e","t","_","U","s","e","r">>,
      <<"m","y","_","l","i","s","t">>,
      <<"r","e","_","a","d","d">>,
      <<"l","i","s","t","_","a","l","l">>,
      <<"g","e","t","s","a","v","e">>,
      <<"S","e","t","u","p","_","g","e","t">>,
      <<"m","a","i","n">>,
      <<"r","u","n">>,
      <<"c","o","m","p","u","t","e">>,
      <<"c","a","t","a","l","o","g">>,
      <<"_","_","i","n","i","t","_","_">>,
      <<"t","e","s","t","_","g","e","t">> }

NodeReturnTypes ==
    { RetAny, RetDict, <<"L","i","s","t">>, <<"s","t","r">>, <<"M","y","D","i","c","t">> }

Node(name, nargs, ret) == [name |-> name, nargs |-> nargs, ret |-> ret]

Nodes == { Node(n, k, r) : n \in NodeNames, k \in 0..MaxArgs, r \in NodeReturnTypes }


\* --------------------------------------------- inputs of _categorize_env_vars
EnvKeys ==
    { KeyApi, KeyDebug, KeyPortLower, <<"M","y","_","A","p","i","_","K","e","y">>, <<"a","u","t","h","o","r">>, <<"T","o","k","e","n">> }

EnvValues == { Val1, ValQuote }

\* the mappings _read_env_file can return: distinct keys, no empty key or value
EnvMappings ==
    { d \in UNION { [1..n -> EnvKeys \X EnvValues] : n \in 0..MaxEntries } :
        \A i, j \in 1..Len(d) : i # j => d[i][1] # d[j][1] }

\* ------------------------------------------------------- generated server
\* Python values that reach extract_args_from_request.  A float holds its
\* value in tenths (1.5 is 15).
PyNone == [kind |-> "NoneType", text |-> <<>>, num |-> 0]

PyStr(t) == [kind |-> "str", text |-> t, num |-> 0]

PyBool(b) == [kind |-> "bool", text |-> <<>>, num |-> IF b THEN 1 ELSE 0]

PyInt(n) == [kind |-> "int", text |-> <<>>, num |-> n]

PyFloat(tenths) == [kind |-> "float", text |-> <<>>, num |-> tenths]

\* the outcome of evaluating an expression: a value, or an exception raised
Returns(v) == [raised |-> "none", value |-> v]

Raises(exc) == [raised |-> exc, value |-> PyNone]

Digits == <<"0","1","2","3","4","5","6","7","8","9">>

IsDigits(s) == s # <<>> /\ \A i \in 1..Len(s) : s[i] \in Range(Digits)

DigitValue(c) == (CHOOSE i \in 1..10 : Digits[i] = c) - 1

RECURSIVE DecimalValue(_)
DecimalValue(s) ==
    IF s = <<>> THEN 0
    ELSE 10 * DecimalValue(SubSeq(s, 1, Len(s) - 1)) + DigitValue(s[Len(s)])

\* s.split(sep, 1)[1], empty when sep does not occur
RECURSIVE After(_, _)
After(s, sep) ==
    IF s = <<>> THEN <<>>
    ELSE IF StartsWith(s, sep) THEN SubSeq(s, Len(sep) + 1, Len(s))
    ELSE After(Tail(s), sep)

\* int(value)
int(value) ==
    CASE value.kind = "str" ->
            LET t == Strip(value.text)
            IN  IF IsDigits(t) THEN Returns(PyInt(DecimalValue(t)))
                ELSE Raises("ValueError")
      [] value.kind \in {"int", "bool"} -> Returns(PyInt(value.num))
      [] value.kind = "float" -> Returns(PyInt(value.num \div 10))
      [] OTHER -> Raises("TypeError")

\* float(value), for literals of at most one fractional digit
float(value) ==
    CASE value.kind = "str" ->
            LET t == Strip(value.text)
                whole == Before(t, <<".">>)
                frac == After(t, <<".">>)
            IN  IF IsDigits(t)
                THEN Returns(PyFloat(10 * DecimalValue(t)))
                ELSE IF Contains(t, <<".">>) /\ IsDigits(whole) /\ IsDigits(frac)
                        /\ Len(frac) = 1
                THEN Returns(PyFloat(10 * DecimalValue(whole) + DecimalValue(frac)))
                ELSE Raises("ValueError")
      [] value.kind \in {"int", "bool"} -> Returns(PyFloat(10 * value.num))
      [] value.kind = "float" -> Returns(value)
      [] OTHER -> Raises("TypeError")

TruthyStrings ==
    { <<"t","r","u","e">>, <<"1">>, <<"y","e","s">>, <<"o","n">> }

\* value.lower() in ('true', '1', 'yes', 'on'): only a str has lower()
lower_in_truthy(value) ==
    IF value.kind = "str"
    THEN Returns(PyBool(Lower(value.text) \in TruthyStrings))
    ELSE Raises("AttributeError")

\* inspect.Parameter: annotation "empty" when the parameter has none, and
\* has_default FALSE when param.default is inspect.Parameter.empty
Parameter(name, annotation, has_default, default) ==
    [name |-> name, annotation |-> annotation, has_default |-> has_default,
     default |-> default]

\* a function of the user's module: its signature and whether its body raises
Function(parameters, body_raises) ==
    [parameters |-> parameters, body_raises |-> body_raises]

\* "Basic type conversion" of extract_args_from_request
convert(annotation, value) ==
    CASE annotation = "int" -> int(value)
      [] annotation = "float" -> float(value)
      [] annotation = "bool" -> lower_in_truthy(value)
      [] OTHER -> Returns(value)

NoError == [kind |-> "none", param |-> "", expected |-> ""]

\* f"Missing required parameter: {param_name}"
MissingRequired(param_name) == [kind |-> "missing", param |-> param_name, expected |-> ""]

\* f"Invalid type for parameter {param_name}: expected {annotation.__name__}"
InvalidType(param_name, annotation) ==
    [kind |-> "invalid", param |-> param_name, expected |-> annotation]

\* str(e) of an exception that reached the route's except clause
ExceptionMessage(exc) == [kind |-> "exception", param |-> "", expected |-> exc]

\* the value read for one parameter: request.args for GET, else request.json
\* (when the request is JSON) or request.form
RequestValue(request, method, param_name) ==
    IF method = GET THEN request.args[param_name]
    ELSE IF request.is_json THEN request.json[param_name]
    ELSE request.form[param_name]

\* the loop of extract_args_from_request from parameter i on; args holds the
\* <<name, value>> pairs extracted so far
RECURSIVE ExtractFrom(_, _, _, _, _)
ExtractFrom(parameters, i, method, request, args) ==
    IF i > Len(parameters)
    THEN [args |-> args, error |-> NoError, raised |-> "none"]
    ELSE LET param == parameters[i]
             got == RequestValue(request, method, param.name)
             missing == got = PyNone /\ ~param.has_default
             value == IF got = PyNone /\ param.has_default THEN param.default ELSE got
             converted == IF param.annotation # "empty"
                          THEN convert(param.annotation, value)
                          ELSE Returns(value)
         IN  IF missing
             THEN [args |-> <<>>, error |-> MissingRequired(param.name), raised |-> "none"]
             ELSE IF converted.raised \in {"ValueError", "TypeError"}
             THEN [args |-> <<>>, error |-> InvalidType(param.name, param.annotation),
                   raised |-> "none"]
             ELSE IF converted.raised # "none"
             THEN [args |-> <<>>, error |-> NoError, raised |-> converted.raised]
             ELSE ExtractFrom(parameters, i + 1, method, request,
                              Append(args, <<param.name, converted.value>>))

\* extract_args_from_request(func, method): args and error, or the exception
\* that leaves it
extract_args_from_request(func, method, request) ==
    ExtractFrom(func.parameters, 1, method, request, <<>>)

\* the functions served and the requests sent to them
ParamNames == {"a", "b"}

Required(name, annotation) == Parameter(name, annotation, FALSE, PyNone)

Functions ==
    { Function(ps, r) :
        ps \in { <<>>,
                 << Required("a", "int") >>,
                 << Required("a", "float") >>,
                 << Required("a", "str") >>,
                 << Required("a", "int"), Required("b", "empty") >>,
                 << Required("a", "bool"), Required("b", "empty") >>,
                 << Parameter("a", "bool", TRUE, PyBool(FALSE)) >>,
                 << Parameter("a", "int", TRUE, PyNone) >>,
                 << Parameter("a", "int", TRUE, PyInt(3)),
                    Parameter("b", "empty", TRUE, PyStr(<<"x">>)) >> },
        r \in BOOLEAN }

\* what a query string or a form can carry for a parameter: a string, or
\* nothing (get() returns None)
StringValues ==
    { PyNone, PyStr(<<"5">>), PyStr(<<"x">>), PyStr(<<"Y","e","s">>),
      PyStr(<<"1",".","5">>) }

\* what a JSON body can carry: also true, a number, null (None again)
JsonValues == StringValues \cup { PyBool(TRUE), PyInt(7) }

Nothing == [n \in ParamNames |-> PyNone]

Requests ==
    { [args |-> d, is_json |-> FALSE, json |-> Nothing, form |-> Nothing] :
        d \in [ParamNames -> StringValues] }
    \cup { [args |-> Nothing, is_json |-> FALSE, json |-> Nothing, form |-> d] :
        d \in [ParamNames -> StringValues] }
    \cup { [args |-> Nothing, is_json |-> TRUE, json |-> d, form |-> Nothing] :
        d \in [ParamNames -> JsonValues] }

NoRequest == [args |-> Nothing, is_json |-> FALSE, json |-> Nothing, form |-> Nothing]

NoResponse == [status |-> 0, error |-> NoError]

\* ------------------------------------------------------------------- state
VARIABLES
    source_file,     \* the source file on disk
    envFile,     \* the .env file on disk
    reqFile,     \* the caller's requirements.txt on disk
    osWandb,     \* WANDB_API_KEY is set in the environment of the process
    _registry,    \* _registry._endpoints of the running process
    output_dir,      \* the files of the output directory
    builder,     \* the fields of the current GetMeThatDawgBuilder
    pc,          \* position of the process in main() / build()
    err,         \* the exception that ended build(), "none" if none
    exitCode,    \* exit status of the last process that ended, -1 if none yet
    announced,   \* build() printed "Secrets detected!"
    before,      \* output_dir as it was when the current builder was constructed
    written,     \* the files the current build has written
    nbuilds,     \* builders constructed so far
    procBuilds,  \* builders constructed in the running process
    lastGood,    \* the last build: a fresh invocation that returned, inputs unchanged since
    rerun,       \* the current build repeats lastGood: .inputs, same command line and
                 \* input files; .environ, same WANDB_API_KEY setting of the process
    edited,      \* an input file was edited since the last builder was constructed
    buildCalls,  \* build() calls that have returned on the current builder
    snapshot,    \* the builder's lists and flask_app.py when build() last returned
    node,        \* heuristic: the ast.FunctionDef under analysis
    analyzed,    \* heuristic: _analyze_function_for_endpoint has returned
    endpoint,    \* heuristic: what it returned, <<>> for None
    mapping,     \* partition: the mapping given to _categorize_env_vars
    categorized, \* partition: _categorize_env_vars has returned for mapping
    partition,   \* partition: what it returned
    lastKeys,    \* partition: the keys of the previous call, all and secret
    func,        \* server: the function behind the route
    route_method, \* server: the method the route was generated with
    request,     \* server: the last request received
    response,    \* server: the answer to it
    invoked,     \* server: the route called func while answering it
    calls,       \* server: the arguments of each invocation of func so far
    served,      \* server: requests answered so far
    args,        \* files: the source file path and output directory given to the builder
    disk,        \* files: the paths of the files that exist
    opened_r,    \* files: the paths the builder has opened for reading
    opened_w,    \* files: the paths the builder has opened for writing
    mkdirs,      \* files: the directories the builder has called mkdir on, in order
    step         \* files: the builder's position

buildVars ==
    <<source_file, envFile, reqFile, osWandb, _registry, output_dir, builder, pc, err,
      exitCode, announced, before, written, nbuilds, procBuilds, lastGood, rerun,
      edited, buildCalls, snapshot>>

repeatVars == <<buildCalls, snapshot>>

classifyVars == <<node, analyzed, endpoint>>

partitionVars == <<mapping, categorized, partition, lastKeys>>

serveVars == <<func, route_method, request, response, invoked, calls, served>>

pathVars == <<args, disk, opened_r, opened_w, mkdirs, step>>

vars == <<buildVars, classifyVars, partitionVars, serveVars, pathVars>>

Absent(content) == [exists |-> FALSE, content |-> content]

Present(content) == [exists |-> TRUE, content |-> content]

FileNames ==
    {"user_module", "flask_app", "dockerfile", "requirements", "fly_toml",
     "secrets_json", "deploy_script"}

EmptyDir ==
    [user_module |-> Absent(<<>>),
     flask_app |-> Absent([weave_init |-> FALSE, routes |-> <<>>, health |-> <<>>]),
     dockerfile |-> Absent(""),
     requirements |-> Absent(<<>>),
     fly_toml |-> Absent([app |-> <<>>, env |-> <<>>]),
     secrets_json |-> Absent(<<>>),
     deploy_script |-> Absent([cmds |-> <<>>, has_secrets |-> FALSE])]

NoSnapshot ==
    [endpoints |-> <<>>, auto_detected_endpoints |-> <<>>,
     flask_app |-> [weave_init |-> FALSE, routes |-> <<>>, health |-> <<>>]]

NoBuilder ==
    [auto_detect |-> FALSE, original_name |-> <<>>, endpoints |-> <<>>,
     auto_detected_endpoints |-> <<>>, wandb_enabled |-> FALSE]

\* the state of the parts a specification does not exercise
BuildIdle ==
    /\ source_file = SrcPlain
    /\ envFile = NoFile
    /\ reqFile = NoFile
    /\ osWandb = FALSE
    /\ _registry = <<>>
    /\ output_dir = EmptyDir
    /\ builder = NoBuilder
    /\ pc = "none"
    /\ err = "none"
    /\ exitCode = -1
    /\ announced = FALSE
    /\ before = EmptyDir
    /\ written = {}
    /\ nbuilds = 0
    /\ procBuilds = 0
    /\ lastGood = [valid |-> FALSE, auto_detect |-> FALSE, os_wandb |-> FALSE]
    /\ rerun = [inputs |-> FALSE, environ |-> FALSE]
    /\ edited = FALSE
    /\ buildCalls = 0
    /\ snapshot = NoSnapshot

ClassifyIdle ==
    /\ node = Node(<<>>, 0, RetAny)
    /\ analyzed = FALSE
    /\ endpoint = <<>>

NoPartition == [secrets |-> <<>>, regular_env |-> <<>>]

NoKeys == [valid |-> FALSE, all |-> {}, secrets |-> {}]

PartitionIdle ==
    /\ mapping = <<>>
    /\ categorized = FALSE
    /\ partition = NoPartition
    /\ lastKeys = NoKeys

ServeIdle ==
    /\ func = Function(<<>>, FALSE)
    /\ route_method = GET
    /\ request = NoRequest
    /\ response = NoResponse
    /\ invoked = FALSE
    /\ calls = <<>>
    /\ served = 0

\* a path: the directory and the file name in it (Path(dir) / name)
PathOf(dir, name) == <<dir, name>>

\* Path.parent
parent(path) == path[1]

NoArgs == [source_file |-> PathOf("/tmp/src", "app.py"), output_dir |-> "/tmp/out"]

PathIdle ==
    /\ args = NoArgs
    /\ disk = {}
    /\ opened_r = {}
    /\ opened_w = {}
    /\ mkdirs = <<>>
    /\ step = "none"

Init ==
    /\ source_file \in Sources
    /\ envFile \in EnvFiles
    /\ reqFile = NoFile
    /\ osWandb = FALSE
    /\ _registry = <<>>
    /\ output_dir = EmptyDir
    /\ builder = NoBuilder
    /\ pc = "none"
    /\ err = "none"
    /\ exitCode = -1
    /\ announced = FALSE
    /\ before = EmptyDir
    /\ written = {}
    /\ nbuilds = 0
    /\ procBuilds = 0
    /\ lastGood = [valid |-> FALSE, auto_detect |-> FALSE, os_wandb |-> FALSE]
    /\ rerun = [inputs |-> FALSE, environ |-> FALSE]
    /\ edited = FALSE
    /\ buildCalls = 0
    /\ snapshot = NoSnapshot
    /\ ClassifyIdle
    /\ PartitionIdle
    /\ ServeIdle
    /\ PathIdle

\* ----------------------------------------------------------------- actions
\* the caller edits one input file between two builds
CanEdit ==
    /\ pc \in {"exited", "killed", "done", "failed"}
    /\ nbuilds < MaxBuilds
    /\ ~edited

EditSource ==
    /\ CanEdit
    /\ \E s \in Sources \ {source_file} : source_file' = s
    /\ edited' = TRUE
    /\ UNCHANGED <<envFile, reqFile, osWandb, _registry, output_dir, builder, pc, err,
                   exitCode, announced, before, written, nbuilds, procBuilds,
                   lastGood, rerun>>
    /\ UNCHANGED <<classifyVars, partitionVars, serveVars, repeatVars, pathVars>>

EditEnv ==
    /\ CanEdit
    /\ \E e \in EnvFiles \ {envFile} : envFile' = e
    /\ edited' = TRUE
    /\ UNCHANGED <<source_file, reqFile, osWandb, _registry, output_dir, builder, pc, err,
                   exitCode, announced, before, written, nbuilds, procBuilds,
                   lastGood, rerun>>
    /\ UNCHANGED <<classifyVars, partitionVars, serveVars, repeatVars, pathVars>>

EditRequirements ==
    /\ CanEdit
    /\ \E r \in ReqFiles \ {reqFile} : reqFile' = r
    /\ edited' = TRUE
    /\ UNCHANGED <<source_file, envFile, osWandb, _registry, output_dir, builder, pc, err,
                   exitCode, announced, before, written, nbuilds, procBuilds,
                   lastGood, rerun>>
    /\ UNCHANGED <<classifyVars, partitionVars, serveVars, repeatVars, pathVars>>

\* a _registry that is restored from the previous run
EndpointRegistryRestored == _registry

\* EndpointRegistry.__init__: self._endpoints = []
EndpointRegistry == <<>>

\* a new interpreter starts: the module-level _registry is created
StartProcess ==
    /\ pc \in {"none", "exited", "killed"}
    /\ nbuilds < MaxBuilds
    /\ \E w \in BOOLEAN : osWandb' = w
    /\ _registry' = EndpointRegistry
    /\ procBuilds' = 0
    /\ builder' = NoBuilder
    /\ pc' = "main"
    /\ err' = "none"
    /\ announced' = FALSE
    /\ UNCHANGED <<source_file, envFile, reqFile, output_dir, exitCode, before, written,
                   nbuilds, lastGood, rerun, edited>>
    /\ UNCHANGED <<classifyVars, partitionVars, serveVars, repeatVars, pathVars>>

\* GetMeThatDawgBuilder.__init__
GetMeThatDawgBuilder ==
    /\ pc \in {"main", "done", "failed"}
    /\ nbuilds < MaxBuilds
    /\ \E auto \in BOOLEAN :
         /\ builder' = [auto_detect |-> auto,
                        original_name |-> SourceStem,
                        endpoints |-> <<>>,
                        auto_detected_endpoints |-> <<>>,
                        wandb_enabled |-> _is_wandb_enabled(envFile, osWandb)]
         /\ rerun' = [inputs |-> (lastGood.valid /\ ~edited
                                    /\ lastGood.auto_detect = auto /\ procBuilds = 0),
                       environ |-> (lastGood.os_wandb = osWandb)]
    /\ pc' = "init"
    /\ err' = "none"
    /\ announced' = FALSE
    /\ before' = output_dir
    /\ written' = {}
    /\ nbuilds' = nbuilds + 1
    /\ procBuilds' = procBuilds + 1
    /\ lastGood' = [lastGood EXCEPT !.valid = FALSE]
    /\ edited' = FALSE
    /\ buildCalls' = 0
    /\ snapshot' = NoSnapshot
    /\ UNCHANGED <<source_file, envFile, reqFile, osWandb, _registry, output_dir, exitCode>>
    /\ UNCHANGED <<classifyVars, partitionVars, serveVars, pathVars>>

\* analyze_source that accepts an empty _registry
no_endpoints_found_never(endpoints) == FALSE

\* "if not self.endpoints" of analyze_source
no_endpoints_found(endpoints) == endpoints = <<>>

\* a zero-endpoints test that analyze_source applies in both modes
raises_no_endpoints_in_any_mode(auto_detect, endpoints) ==
    no_endpoints_found(endpoints)

\* the zero-endpoints test stands in the declarative branch of analyze_source
raises_no_endpoints(auto_detect, endpoints) ==
    ~auto_detect /\ no_endpoints_found(endpoints)

\* analyze_source, the first step of build()
analyze_source ==
    /\ pc = "init"
    /\ IF builder.auto_detect
       THEN LET detected == auto_detect_endpoints(source_file, builder.auto_detected_endpoints)
                converted == builder.endpoints \o ConvertAutoDetected(detected)
            IN  /\ builder' = [builder EXCEPT
                                 !.auto_detected_endpoints = detected,
                                 !.endpoints = converted]
                /\ IF raises_no_endpoints(builder.auto_detect, converted)
                   THEN pc' = "failed" /\ err' = "NoEndpoints"
                   ELSE pc' = "analyzed" /\ UNCHANGED err
                /\ UNCHANGED _registry
       ELSE IF ~source_file.syntax_ok
       THEN /\ pc' = "failed"
            /\ err' = "SyntaxError"
            /\ UNCHANGED <<_registry, builder>>
       ELSE LET reg == ExecModule(source_file.defs, _registry)
            IN  /\ _registry' = reg
                /\ IF source_file.exec_raises
                   THEN /\ pc' = "failed"
                        /\ err' = "ModuleError"
                        /\ UNCHANGED builder
                   ELSE /\ builder' = [builder EXCEPT !.endpoints = get_endpoints(reg)]
                        /\ IF raises_no_endpoints(builder.auto_detect, reg)
                           THEN pc' = "failed" /\ err' = "NoEndpoints"
                           ELSE pc' = "analyzed" /\ UNCHANGED err
    /\ UNCHANGED <<source_file, envFile, reqFile, osWandb, output_dir, exitCode, announced,
                   before, written, nbuilds, procBuilds, lastGood, rerun, edited>>
    /\ UNCHANGED <<classifyVars, partitionVars, serveVars, repeatVars, pathVars>>

\* open(path, 'w') and write: the file is created or replaced
WriteFile(name, content) ==
    /\ output_dir' = [output_dir EXCEPT ![name] = Present(content)]
    /\ written' = written \cup {name}

\* copy_source_file
copy_source_file ==
    /\ pc = "analyzed"
    /\ WriteFile("user_module", processed_lines(source_file, builder))
    /\ pc' = "copied"
    /\ UNCHANGED <<source_file, envFile, reqFile, osWandb, _registry, builder, err, exitCode,
                   announced, before, nbuilds, procBuilds, lastGood, rerun, edited>>
    /\ UNCHANGED <<classifyVars, partitionVars, serveVars, repeatVars, pathVars>>

\* generate_flask_app
generate_flask_app ==
    /\ pc = "copied"
    /\ WriteFile("flask_app", template(builder))
    /\ pc' = "flask"
    /\ UNCHANGED <<source_file, envFile, reqFile, osWandb, _registry, builder, err, exitCode,
                   announced, before, nbuilds, procBuilds, lastGood, rerun, edited>>
    /\ UNCHANGED <<classifyVars, partitionVars, serveVars, repeatVars, pathVars>>

\* generate_dockerfile
generate_dockerfile ==
    /\ pc = "flask"
    /\ WriteFile("dockerfile", dockerfile_content)
    /\ pc' = "docker"
    /\ UNCHANGED <<source_file, envFile, reqFile, osWandb, _registry, builder, err, exitCode,
                   announced, before, nbuilds, procBuilds, lastGood, rerun, edited>>
    /\ UNCHANGED <<classifyVars, partitionVars, serveVars, repeatVars, pathVars>>

\* generate_requirements
generate_requirements ==
    /\ pc = "docker"
    /\ WriteFile("requirements", requirements_txt(reqFile, builder))
    /\ pc' = "reqs"
    /\ UNCHANGED <<source_file, envFile, reqFile, osWandb, _registry, builder, err, exitCode,
                   announced, before, nbuilds, procBuilds, lastGood, rerun, edited>>
    /\ UNCHANGED <<classifyVars, partitionVars, serveVars, repeatVars, pathVars>>

\* generate_fly_toml, first call: generate_secrets_file writes secrets.json
\* when the .env file has secrets, and nothing otherwise
generate_secrets_file ==
    /\ pc = "reqs"
    /\ LET env_vars == _read_env_file(envFile)
           secrets == _categorize_env_vars(env_vars).secrets
       IN  IF secrets = <<>>
           THEN UNCHANGED <<output_dir, written>>
           ELSE WriteFile("secrets_json", secrets_data(env_vars))
    /\ pc' = "secrets"
    /\ UNCHANGED <<source_file, envFile, reqFile, osWandb, _registry, builder, err, exitCode,
                   announced, before, nbuilds, procBuilds, lastGood, rerun, edited>>
    /\ UNCHANGED <<classifyVars, partitionVars, serveVars, repeatVars, pathVars>>

\* generate_fly_toml, second call: generate_deployment_script
generate_deployment_script ==
    /\ pc = "secrets"
    /\ WriteFile("deploy_script", script_content(_read_env_file(envFile)))
    /\ pc' = "script"
    /\ UNCHANGED <<source_file, envFile, reqFile, osWandb, _registry, builder, err, exitCode,
                   announced, before, nbuilds, procBuilds, lastGood, rerun, edited>>
    /\ UNCHANGED <<classifyVars, partitionVars, serveVars, repeatVars, pathVars>>

\* generate_fly_toml, the rest: fly.toml is written
generate_fly_toml ==
    /\ pc = "script"
    /\ WriteFile("fly_toml", fly_toml_content(builder.original_name, _read_env_file(envFile)))
    /\ pc' = "toml"
    /\ UNCHANGED <<source_file, envFile, reqFile, osWandb, _registry, builder, err, exitCode,
                   announced, before, nbuilds, procBuilds, lastGood, rerun, edited>>
    /\ UNCHANGED <<classifyVars, partitionVars, serveVars, repeatVars, pathVars>>

\* the end of build(): the deployment instructions, then return self.output_dir
build ==
    /\ pc = "toml"
    /\ announced' = output_dir.deploy_script.exists
    /\ pc' = "done"
    /\ lastGood' = [valid |-> procBuilds = 1,
                    auto_detect |-> builder.auto_detect,
                    os_wandb |-> osWandb]
    /\ buildCalls' = buildCalls + 1
    /\ snapshot' = [endpoints |-> builder.endpoints,
                    auto_detected_endpoints |-> builder.auto_detected_endpoints,
                    flask_app |-> output_dir.flask_app.content]
    /\ UNCHANGED <<source_file, envFile, reqFile, osWandb, _registry, output_dir, builder, err,
                   exitCode, before, written, nbuilds, procBuilds, rerun, edited>>
    /\ UNCHANGED <<classifyVars, partitionVars, serveVars, pathVars>>

\* main(): build() returned (exit status 0) or raised (print the error, exit 1)
main ==
    /\ pc \in {"done", "failed"}
    /\ exitCode' = IF pc = "done" THEN 0 ELSE 1
    /\ pc' = "exited"
    /\ UNCHANGED <<source_file, envFile, reqFile, osWandb, _registry, output_dir, builder, err,
                   announced, before, written, nbuilds, procBuilds, lastGood, rerun, edited>>
    /\ UNCHANGED <<classifyVars, partitionVars, serveVars, repeatVars, pathVars>>

\* the process is killed from outside while build() runs
Kill ==
    /\ pc \in {"init", "analyzed", "copied", "flask", "docker", "reqs", "secrets",
              "script", "toml"}
    /\ pc' = "killed"
    /\ exitCode' = 137
    /\ UNCHANGED <<source_file, envFile, reqFile, osWandb, _registry, output_dir, builder, err,
                   announced, before, written, nbuilds, procBuilds, lastGood, rerun, edited>>
    /\ UNCHANGED <<classifyVars, partitionVars, serveVars, repeatVars, pathVars>>

Next ==
    \/ EditSource
    \/ EditEnv
    \/ EditRequirements
    \/ StartProcess
    \/ GetMeThatDawgBuilder
    \/ analyze_source
    \/ copy_source_file
    \/ generate_flask_app
    \/ generate_dockerfile
    \/ generate_requirements
    \/ generate_secrets_file
    \/ generate_deployment_script
    \/ generate_fly_toml
    \/ build
    \/ main
    \/ Kill

Spec == Init /\ [][Next]_vars

\* ------------------------------ the builder called from a program (library)
\* A program imports getmethatdawg.builder, constructs builders on its files
\* and calls build() on them, more than once on the same object.
LibraryInit ==
    /\ source_file \in LibSources
    /\ envFile \in EnvFiles
    /\ reqFile \in LibReqFiles
    /\ osWandb = FALSE
    /\ _registry = EndpointRegistry
    /\ output_dir = EmptyDir
    /\ builder = NoBuilder
    /\ pc = "main"
    /\ err = "none"
    /\ exitCode = -1
    /\ announced = FALSE
    /\ before = EmptyDir
    /\ written = {}
    /\ nbuilds = 0
    /\ procBuilds = 0
    /\ lastGood = [valid |-> FALSE, auto_detect |-> FALSE, os_wandb |-> FALSE]
    /\ rerun = [inputs |-> FALSE, environ |-> FALSE]
    /\ edited = FALSE
    /\ buildCalls = 0
    /\ snapshot = NoSnapshot
    /\ ClassifyIdle
    /\ PartitionIdle
    /\ ServeIdle
    /\ PathIdle

\* builder.build() is called again on the object whose build() has returned
build_again ==
    /\ pc = "done"
    /\ buildCalls < MaxCalls
    /\ pc' = "init"
    /\ announced' = FALSE
    /\ before' = output_dir
    /\ written' = {}
    /\ UNCHANGED <<source_file, envFile, reqFile, osWandb, _registry, output_dir, builder, err,
                   exitCode, nbuilds, procBuilds, lastGood, rerun, edited>>
    /\ UNCHANGED <<classifyVars, partitionVars, serveVars, repeatVars, pathVars>>

LibraryNext ==
    \/ GetMeThatDawgBuilder
    \/ analyze_source
    \/ copy_source_file
    \/ generate_flask_app
    \/ generate_dockerfile
    \/ generate_requirements
    \/ generate_secrets_file
    \/ generate_deployment_script
    \/ generate_fly_toml
    \/ build
    \/ build_again

LibrarySpec == LibraryInit /\ [][LibraryNext]_vars

\* ------------------------------------------------- the files a build opens
\* The builder is given a source file path and an output directory; the files
\* it looks for next to the source and under /tmp may or may not exist.  The
\* working directory holds no .env file.
SourceDirs == {"/tmp/src", "/tmp/out"}

SourceNames == {"app.py", "user_module.py"}

OutputDirs == {"/tmp/out", "/tmp/src"}

\* the files the builder looks for besides the source file
LookedFor(source_file_path) ==
    { PathOf("/tmp", "requirements.txt"),
      PathOf(parent(source_file_path), "requirements.txt"),
      PathOf("/tmp", ".env"),
      PathOf(parent(source_file_path), ".env") }

\* the first path of a search list that exists, as a set of at most one path
FirstExisting(search_paths) ==
    { search_paths[i] : i \in { j \in 1..Len(search_paths) :
                                  /\ search_paths[j] \in disk
                                  /\ \A k \in 1..(j - 1) : search_paths[k] \notin disk } }

\* _read_env_file: the .env file it opens
env_path ==
    FirstExisting(<< PathOf("/tmp", ".env"),
                     PathOf(parent(args.source_file), ".env") >>)

\* generate_requirements: the caller's requirements file it opens
custom_requirements_path ==
    FirstExisting(<< PathOf("/tmp", "requirements.txt"),
                     PathOf(parent(args.source_file), "requirements.txt") >>)

FilesInit ==
    /\ \E d \in SourceDirs, n \in SourceNames, o \in OutputDirs :
          /\ args = [source_file |-> PathOf(d, n), output_dir |-> o]
          /\ \E present \in SUBSET LookedFor(PathOf(d, n)) :
                disk = {PathOf(d, n)} \cup present
    /\ opened_r = {}
    /\ opened_w = {}
    /\ mkdirs = <<>>
    /\ step = "main"
    /\ BuildIdle
    /\ ClassifyIdle
    /\ PartitionIdle
    /\ ServeIdle

\* open(path, 'w') on a file of the output directory
OpenForWriting(names) ==
    LET paths == { PathOf(args.output_dir, n) : n \in names }
    IN  /\ opened_w' = opened_w \cup paths
        /\ disk' = disk \cup paths

\* __init__: _is_wandb_enabled reads the .env file, then the output directory
\* is made
construct ==
    /\ step = "main"
    /\ opened_r' = opened_r \cup env_path
    /\ mkdirs' = Append(mkdirs, args.output_dir)
    /\ step' = "init"
    /\ UNCHANGED <<args, disk, opened_w>>
    /\ UNCHANGED <<buildVars, classifyVars, partitionVars, serveVars>>

\* analyze_source: the source file is parsed or executed
read_source ==
    /\ step = "init"
    /\ opened_r' = opened_r \cup {args.source_file}
    /\ step' = "analyzed"
    /\ UNCHANGED <<args, disk, opened_w, mkdirs>>
    /\ UNCHANGED <<buildVars, classifyVars, partitionVars, serveVars>>

\* copy_source_file: the source is read, then user_module.py is written
write_user_module ==
    /\ step = "analyzed"
    /\ opened_r' = opened_r \cup {args.source_file}
    /\ OpenForWriting({"user_module.py"})
    /\ step' = "copied"
    /\ UNCHANGED <<args, mkdirs>>
    /\ UNCHANGED <<buildVars, classifyVars, partitionVars, serveVars>>

\* generate_flask_app and generate_dockerfile
write_flask_app ==
    /\ step = "copied"
    /\ OpenForWriting({"flask_app.py", "Dockerfile"})
    /\ step' = "docker"
    /\ UNCHANGED <<args, opened_r, mkdirs>>
    /\ UNCHANGED <<buildVars, classifyVars, partitionVars, serveVars>>

\* generate_requirements: the caller's file, when one exists, is read before
\* requirements.txt is written
write_requirements ==
    /\ step = "docker"
    /\ opened_r' = opened_r \cup custom_requirements_path
    /\ OpenForWriting({"requirements.txt"})
    /\ step' = "reqs"
    /\ UNCHANGED <<args, mkdirs>>
    /\ UNCHANGED <<buildVars, classifyVars, partitionVars, serveVars>>

\* generate_fly_toml: the .env file is read; secrets.json is written when it
\* holds secrets, then the deployment script and fly.toml
write_fly_toml ==
    /\ step = "reqs"
    /\ opened_r' = opened_r \cup env_path
    /\ \E has_secrets \in {b \in BOOLEAN : b => env_path # {}} :
          OpenForWriting((IF has_secrets THEN {"secrets.json"} ELSE {})
                         \cup {"deploy-with-secrets.sh", "fly.toml"})
    /\ step' = "done"
    /\ UNCHANGED <<args, mkdirs>>
    /\ UNCHANGED <<buildVars, classifyVars, partitionVars, serveVars>>

FilesNext ==
    \/ construct
    \/ read_source
    \/ write_user_module
    \/ write_flask_app
    \/ write_requirements
    \/ write_fly_toml

FilesSpec == FilesInit /\ [][FilesNext]_vars

\* ------------------------------------------- the heuristic on one function
ClassifyInit ==
    /\ node \in Nodes
    /\ analyzed = FALSE
    /\ endpoint = <<>>
    /\ BuildIdle
    /\ PathIdle
    /\ PartitionIdle
    /\ ServeIdle

\* one turn of the loop of auto_detect_endpoints
AnalyzeFunction ==
    /\ ~analyzed
    /\ endpoint' = _analyze_function_for_endpoint(node)
    /\ analyzed' = TRUE
    /\ UNCHANGED <<node, buildVars, partitionVars, serveVars, pathVars>>

ClassifyNext == AnalyzeFunction

ClassifySpec == ClassifyInit /\ [][ClassifyNext]_vars

\* ---------------------------------------------- the partition of a mapping
PartitionInit ==
    /\ mapping \in EnvMappings
    /\ categorized = FALSE
    /\ partition = NoPartition
    /\ lastKeys = NoKeys
    /\ BuildIdle
    /\ PathIdle
    /\ ClassifyIdle
    /\ ServeIdle

\* a call of _categorize_env_vars
Categorize ==
    /\ ~categorized
    /\ partition' = _categorize_env_vars(mapping)
    /\ categorized' = TRUE
    /\ UNCHANGED <<mapping, lastKeys, buildVars, classifyVars, serveVars, pathVars>>

\* the caller changes one value of the mapping before the next call
ChangeValue ==
    /\ categorized
    /\ \E i \in 1..Len(mapping) :
         \E v \in EnvValues \ {mapping[i][2]} :
             mapping' = [mapping EXCEPT ![i] = <<mapping[i][1], v>>]
    /\ lastKeys' = [valid |-> TRUE, all |-> DictKeys(mapping),
                    secrets |-> DictKeys(partition.secrets)]
    /\ categorized' = FALSE
    /\ UNCHANGED <<partition, buildVars, classifyVars, serveVars, pathVars>>

PartitionNext ==
    \/ Categorize
    \/ ChangeValue

PartitionSpec == PartitionInit /\ [][PartitionNext]_vars

\* ------------------------------------------------- the generated server
ServeInit ==
    /\ func \in Functions
    /\ route_method \in {GET, POST}
    /\ request = NoRequest
    /\ response = NoResponse
    /\ invoked = FALSE
    /\ calls = <<>>
    /\ served = 0
    /\ BuildIdle
    /\ PathIdle
    /\ ClassifyIdle
    /\ PartitionIdle

\* the generated {func_name}_route answers one request
route ==
    /\ served < MaxRequests
    /\ \E req \in Requests :
         LET extracted == extract_args_from_request(func, route_method, req)
         IN  /\ request' = req
             /\ IF extracted.raised # "none"
                THEN /\ response' = [status |-> 500,
                                     error |-> ExceptionMessage(extracted.raised)]
                     /\ invoked' = FALSE
                     /\ UNCHANGED calls
                ELSE IF extracted.error # NoError
                THEN /\ response' = [status |-> 400, error |-> extracted.error]
                     /\ invoked' = FALSE
                     /\ UNCHANGED calls
                ELSE /\ calls' = Append(calls, extracted.args)
                     /\ invoked' = TRUE
                     /\ response' = IF func.body_raises
                                    THEN [status |-> 500,
                                          error |-> ExceptionMessage("BodyError")]
                                    ELSE [status |-> 200, error |-> NoError]
    /\ served' = served + 1
    /\ UNCHANGED <<func, route_method, buildVars, classifyVars, partitionVars, pathVars>>

ServeNext == route

ServeSpec == ServeInit /\ [][ServeNext]_vars

\* ------------------------------------------------------------------ claims
\* the positions of build() after analyze_source has returned
Rendering ==
    pc \in {"analyzed", "copied", "flask", "docker", "reqs", "secrets", "script", "toml"}

\* C1: after analyze_source, in either strategy, no two entries of the
\* endpoint list have the same (method, path) pair.
C1_UniqueMethodPath ==
    pc = "analyzed" =>
        \A i, j \in 1..Len(builder.endpoints) :
            i # j =>
                <<builder.endpoints[i].method, builder.endpoints[i].path>>
                    # <<builder.endpoints[j].method, builder.endpoints[j].path>>

\* C2: within one build every exposed function name appears in exactly one
\* entry of the endpoint list.
C2_OneEndpointPerFunction ==
    pc = "analyzed" =>
        \A i, j \in 1..Len(builder.endpoints) :
            i # j => builder.endpoints[i].func_name # builder.endpoints[j].func_name

\* the [env] table of the fly.toml in the output directory, as a set of lines
EnvTable == Range(output_dir.fly_toml.content.env)

\* the configuration mapping read from the .env source
EnvVars == _read_env_file(envFile)

\* C3 as stated: the [env] table written by generate_fly_toml holds no
\* Sensitive key and holds every Public key with its value, whatever its name.
C3_EveryPublicEntryWritten ==
    pc = "toml" =>
        /\ \A kv \in EnvTable : ~is_secret(kv[1])
        /\ \A kv \in Range(EnvVars) : ~is_secret(kv[1]) => kv \in EnvTable

\* C3 amended: the [env] table written by generate_fly_toml holds no Sensitive
\* key, holds PORT = "5000", and holds every Public key whose upper-cased name
\* is not PORT with its value; a key spelled PORT in any letter case is left out.
C3_PublicEntriesExceptPort ==
    pc = "toml" =>
        /\ \A kv \in EnvTable : ~is_secret(kv[1])
        /\ <<PORT, <<"5","0","0","0">> >> \in EnvTable
        /\ \A kv \in Range(EnvVars) :
             (~is_secret(kv[1]) /\ Upper(kv[1]) # PORT) <=> kv \in EnvTable \ {<<PORT, <<"5","0","0","0">> >>}

C3_Witness ==
    /\ pc = "toml"
    /\ \E kv \in Range(EnvVars) : is_secret(kv[1])
    /\ \E kv \in Range(EnvVars) : ~is_secret(kv[1]) /\ Upper(kv[1]) = PORT
    /\ \E kv \in Range(EnvVars) : ~is_secret(kv[1]) /\ kv \in EnvTable

\* C4: deploy-with-secrets.sh is written by a build if and only if the
\* configuration partition has at least one Sensitive entry.
C4_ScriptIffSecrets ==
    pc \in {"toml", "done"} /\ ~edited =>
        ("deploy_script" \in written <=> _categorize_env_vars(EnvVars).secrets # <<>>)

\* C5: when the source file is not syntactically valid the build aborts
\* before classification, in both strategies: it never gets past
\* analyze_source, writes no artifact and does not return.
C5_SyntaxErrorAborts ==
    ~source_file.syntax_ok /\ ~edited =>
        /\ ~Rendering
        /\ pc # "done"
        /\ pc \in {"failed", "exited", "killed"} => written = {}

\* C6: in declarative mode, when the _registry is empty after the source file
\* has been executed, build() raises the no-endpoints error before any render
\* step: no file is written and the output directory is as it was before.
C6_NoEndpointsNoOutput ==
    ( /\ pc \in {"analyzed", "copied", "flask", "docker", "reqs", "secrets", "script",
                 "toml", "done", "failed"}
      /\ ~builder.auto_detect
      /\ ~edited
      /\ source_file.syntax_ok /\ ~source_file.exec_raises
      /\ _registry = <<>> )
    => ( /\ pc = "failed"
         /\ err = "NoEndpoints"
         /\ written = {}
         /\ output_dir = before )

C6_Witness ==
    /\ pc = "failed"
    /\ err = "NoEndpoints"
    /\ _registry = <<>>
    /\ output_dir.flask_app.exists
    /\ output_dir = before

\* C7: after the last successful build into the output directory, the
\* artifact files present are exactly the ones that build wrote: no file of
\* an earlier build survives.
C7_OnlyLastBuildFiles ==
    pc = "done" => \A f \in FileNames : output_dir[f].exists <=> f \in written

\* C8: in declarative mode the endpoint list of a build holds only the
\* endpoints registered by its own source file, also for the second builder
\* of a process.
C8_NoRegistryLeak ==
    pc = "analyzed" /\ ~builder.auto_detect =>
        builder.endpoints = ExecModule(source_file.defs, <<>>)

\* the three artifacts of the round-trip property are as the previous build
\* left them
SameArtifacts ==
    /\ output_dir.flask_app = before.flask_app
    /\ output_dir.dockerfile = before.dockerfile
    /\ output_dir.fly_toml = before.fly_toml

\* C9 as stated: a fresh invocation repeated with the same source file, .env
\* contents and requirements file writes the same flask_app.py, Dockerfile
\* and fly.toml.
C9_SameFilesSameArtifacts ==
    pc = "done" /\ rerun.inputs => SameArtifacts

\* C9 amended: a fresh invocation repeated with the same command line, source
\* file, .env contents and requirements file, and with WANDB_API_KEY set or
\* unset in the process environment as before, writes the same flask_app.py,
\* Dockerfile and fly.toml.
C9_SameFilesAndEnvironSameArtifacts ==
    pc = "done" /\ rerun.inputs /\ rerun.environ => SameArtifacts

C9_Witness ==
    /\ pc = "done"
    /\ rerun.inputs /\ rerun.environ
    /\ Len(builder.endpoints) >= 2
    /\ output_dir.flask_app.content.weave_init
    /\ SameArtifacts

\* C10: the command exits 0 only when every artifact was rendered from a
\* successfully extracted and classified source.
C10_SuccessOnlyWhenAllRendered ==
    pc = "exited" /\ exitCode = 0 /\ ~edited =>
        /\ source_file.syntax_ok
        /\ {"user_module", "flask_app", "dockerfile", "requirements", "fly_toml"}
               \subseteq written


\* the definitions of the source file the heuristic may consider: top-level,
\* name not starting with an underscore
TopLevelPublic ==
    { j \in 1..Len(source_file.defs) :
        /\ source_file.defs[j].scope = "module"
        /\ source_file.defs[j].name[1] # "_" }

\* C11: in heuristic mode every detected endpoint belongs to a top-level
\* function whose name does not start with an underscore, and no more
\* endpoints are detected than there are such functions; functions defined
\* inside a class or another function produce none.
C11_OnlyTopLevelFunctions ==
    (pc = "analyzed" /\ builder.auto_detect) =>
        /\ \A i \in 1..Len(builder.auto_detected_endpoints) :
             \E j \in TopLevelPublic :
                 source_file.defs[j].name = builder.auto_detected_endpoints[i].func_name
        /\ Len(builder.auto_detected_endpoints) <= Cardinality(TopLevelPublic)

\* a name the heuristic excludes: it starts with an underscore, or its
\* lower-case form contains a fragment of the denylist
NameExcluded(name) ==
    \/ name[1] = "_"
    \/ \E i \in 1..Len(name) : \E k \in i..Len(name) :
           [m \in 1..(k - i + 1) |-> LowerChar(name[i + m - 1])] \in skip_patterns

\* the method of what _analyze_function_for_endpoint returned, None if none
DetectedMethod == IF endpoint = <<>> THEN None ELSE endpoint[1].method

ReadVerbs == GetPrefixes

WriteVerbs == PostPrefixes

StructuredReturn(ret) ==
    ret \in { RetDict, <<"L","i","s","t">>, <<"d","i","c","t">>, <<"l","i","s","t">> }
    \/ Contains(ret, RetDict)

\* the five rules in their priority order, each verb fragment counted where
\* the name starts with it or contains it
FiveRuleMethod(n) ==
    IF n.nargs <= 1 /\ \E v \in ReadVerbs : Contains(Lower(n.name), v) THEN GET
    ELSE IF n.nargs > 1 \/ \E v \in WriteVerbs : Contains(Lower(n.name), v) THEN POST
    ELSE IF StructuredReturn(n.ret) THEN (IF n.nargs <= 1 THEN GET ELSE POST)
    ELSE IF Len(n.name) > 3 /\ n.nargs >= 1 THEN (IF n.nargs = 1 THEN GET ELSE POST)
    ELSE None

\* C12: for a function the naming rules do not exclude, the method chosen is
\* the one the five rules give in priority order, first match wins; None
\* stands for "not an endpoint".
C12_FiveRulePriority ==
    (analyzed /\ ~NameExcluded(node.name)) => DetectedMethod = FiveRuleMethod(node)

\* what the rule set alone gives for the function under analysis
RuleSet == _determine_http_method_and_path(node.name, node.nargs, node.ret)

\* C13: an excluded function (leading underscore, or a denylist fragment in
\* its lower-case name) produces no endpoint whatever its parameters, verbs
\* or return type; a function that is not excluded produces exactly what the
\* rule set gives for it.
C13_ExclusionBeforeClassification ==
    analyzed =>
        /\ NameExcluded(node.name) => endpoint = <<>>
        /\ ~NameExcluded(node.name) =>
             /\ (endpoint = <<>>) <=> (RuleSet[1] = None)
             /\ endpoint # <<>> =>
                  /\ endpoint[1].func_name = node.name
                  /\ <<endpoint[1].method, endpoint[1].path>> = RuleSet

\* an excluded function that the rule set would accept, with a denylist
\* fragment that only lower() reveals, has been analysed
C13_Witness ==
    /\ analyzed
    /\ node.name[1] # "_"
    /\ NameExcluded(node.name)
    /\ ~(\E p \in skip_patterns : Contains(node.name, p))
    /\ RuleSet[1] # None
    /\ endpoint = <<>>

\* C14: the path of an accepted function is "/" followed by its name, letter
\* by letter in lower case, with "-" where the name has "_"; get_user(id)
\* gives GET /get-user and save_order(order_id, amount) gives POST /save-order.
C14_PathIsKebabName ==
    (analyzed /\ endpoint # <<>>) =>
        LET path == endpoint[1].path
            name == node.name
        IN  /\ Len(path) = Len(name) + 1
            /\ path[1] = "/"
            /\ \A i \in 1..Len(name) :
                 path[i + 1] = IF name[i] = "_" THEN "-" ELSE LowerChar(name[i])
            /\ (name = <<"g","e","t","_","u","s","e","r">> /\ node.nargs = 1) =>
                 /\ endpoint[1].method = GET
                 /\ path = <<"/","g","e","t","-","u","s","e","r">>
            /\ (name = <<"s","a","v","e","_","o","r","d","e","r">> /\ node.nargs = 2) =>
                 /\ endpoint[1].method = POST
                 /\ path = <<"/","s","a","v","e","-","o","r","d","e","r">>

\* a function whose name has a capital letter and an underscore was accepted
C14_Witness ==
    /\ analyzed
    /\ endpoint # <<>>
    /\ \E i \in 1..Len(node.name) : node.name[i] \in Range(UpperChars)
    /\ \E i \in 1..Len(node.name) : node.name[i] = "_"

HttpVerbs ==
    { GET, POST, <<"P","U","T">>, <<"D","E","L","E","T","E">>,
      <<"P","A","T","C","H">>, <<"H","E","A","D">>,
      <<"O","P","T","I","O","N","S">> }

\* absolute, and kebab-cased: no capital letter and no underscore
IsKebabPath(path) ==
    /\ path # <<>>
    /\ path[1] = "/"
    /\ \A i \in 1..Len(path) : path[i] \notin Range(UpperChars) \cup {"_"}

\* C15 as stated: every endpoint handed to the renderer, in either strategy,
\* has an absolute kebab-cased path and an upper-case HTTP verb as method.
C15_KebabPathAndHttpVerb ==
    Rendering =>
        \A i \in 1..Len(builder.endpoints) :
            /\ IsKebabPath(builder.endpoints[i].path)
            /\ builder.endpoints[i].method \in HttpVerbs

\* the paths that the decorators of the source files supply
SuppliedPaths ==
    UNION { { src.defs[j].exposes[k].path : k \in 1..Len(src.defs[j].exposes) } :
            <<src, j>> \in { <<s, n>> \in Sources \X (1..2) : n <= Len(s.defs) } }
    \ {None}

\* C15 amended: every endpoint handed to the renderer has a method without
\* lower-case letters; in heuristic mode the method is GET or POST and the
\* path is "/" plus the kebab-cased name; in declarative mode the path is the
\* supplied path unchanged, or "/" plus the function name unchanged when none
\* was supplied.
C15_UpperMethodPathAsDeclared ==
    Rendering =>
        \A i \in 1..Len(builder.endpoints) :
            LET e == builder.endpoints[i]
            IN  /\ \A k \in 1..Len(e.method) : e.method[k] \notin Range(LowerChars)
                /\ builder.auto_detect =>
                     /\ e.method \in {GET, POST}
                     /\ IsKebabPath(e.path)
                     /\ Len(e.path) = Len(e.func_name) + 1
                /\ ~builder.auto_detect =>
                     \/ e.path = <<"/">> \o e.func_name
                     \/ e.path \in SuppliedPaths

\* a declarative build of a decorator written with method "get" and no path,
\* on a function whose name has an underscore, reached the renderer
C15_Witness ==
    /\ Rendering
    /\ ~builder.auto_detect
    /\ \E j \in 1..Len(source_file.defs) :
         \E k \in 1..Len(source_file.defs[j].exposes) :
             /\ source_file.defs[j].exposes[k].path = None
             /\ source_file.defs[j].exposes[k].method = <<"g","e","t">>
    /\ \E i \in 1..Len(builder.endpoints) :
         /\ builder.endpoints[i].method = GET
         /\ builder.endpoints[i].path = <<"/">> \o builder.endpoints[i].func_name
         /\ "_" \in Range(builder.endpoints[i].path)

\* the key in upper case contains the fragment at some position
KeyHasFragment(key, fragment) ==
    \E i \in 1..Len(key) :
        /\ i + Len(fragment) - 1 <= Len(key)
        /\ \A m \in 1..Len(fragment) : UpperChar(key[i + m - 1]) = fragment[m]

\* C16: after _categorize_env_vars every key of the mapping is in exactly one
\* bucket, with its value; a key is in the secrets bucket exactly when its
\* upper-case form contains a credential fragment, so always when it contains
\* API_KEY in any letter case; and a call on a mapping with the same keys and
\* other values gives the same buckets of keys.
C16_PartitionTotalAndByKey ==
    categorized =>
        /\ DictKeys(partition.secrets) \cap DictKeys(partition.regular_env) = {}
        /\ DictKeys(partition.secrets) \cup DictKeys(partition.regular_env)
             = DictKeys(mapping)
        /\ Len(partition.secrets) + Len(partition.regular_env) = Len(mapping)
        /\ \A k \in DictKeys(mapping) :
             /\ k \in DictKeys(partition.secrets)
                  <=> \E p \in secret_patterns : KeyHasFragment(k, p)
             /\ KeyHasFragment(k, <<"A","P","I","_","K","E","Y">>)
                  => k \in DictKeys(partition.secrets)
             /\ DictGet(IF k \in DictKeys(partition.secrets)
                        THEN partition.secrets ELSE partition.regular_env, k)
                  = DictGet(mapping, k)
        /\ (lastKeys.valid /\ lastKeys.all = DictKeys(mapping))
             => DictKeys(partition.secrets) = lastKeys.secrets

\* a mapping with a lower-case API key and a public key was partitioned a
\* second time after one of its values had changed
C16_Witness ==
    /\ categorized
    /\ lastKeys.valid
    /\ \E k \in DictKeys(partition.secrets) :
         /\ KeyHasFragment(k, <<"A","P","I","_","K","E","Y">>)
         /\ \E m \in 1..Len(k) : k[m] \in Range(LowerChars)
    /\ partition.regular_env # <<>>

\* the parameters of func, by position
Params == 1..Len(func.parameters)

\* what the last request carries for parameter i, PyNone when it is absent
Supplied(i) == RequestValue(request, route_method, func.parameters[i].name)

\* parameter i has no default and the request does not carry it
IsMissing(i) == ~func.parameters[i].has_default /\ Supplied(i) = PyNone

\* the request carries a value for parameter i that its declared type
\* int, float or bool does not accept
CoercionFails(i) ==
    /\ func.parameters[i].annotation \in {"int", "float", "bool"}
    /\ Supplied(i) # PyNone
    /\ convert(func.parameters[i].annotation, Supplied(i)).raised # "none"

\* the least element of a non-empty set of positions
First(S) == CHOOSE i \in S : \A j \in S : i <= j

\* C17: a request that lacks a parameter without default is answered with
\* status 400 and "Missing required parameter: <name>" for the first such
\* parameter in signature order, and func is not invoked.
C17_MissingRequiredIs400 ==
    (served > 0 /\ \E i \in Params : IsMissing(i)) =>
        /\ response =
             [status |-> 400,
              error |-> MissingRequired(
                            func.parameters[First({i \in Params : IsMissing(i)})].name)]
        /\ ~invoked

\* the value extraction works on for parameter i: the default when the
\* request carries nothing and a default exists
Effective(i) ==
    IF Supplied(i) = PyNone /\ func.parameters[i].has_default
    THEN func.parameters[i].default
    ELSE Supplied(i)

\* parameter i stops the extraction: it is missing, or its value is not
\* accepted by its declared type
Stops(i) ==
    \/ IsMissing(i)
    \/ /\ func.parameters[i].annotation \in {"int", "float", "bool"}
       /\ convert(func.parameters[i].annotation, Effective(i)).raised # "none"

\* C18: when the first parameter in signature order that stops the
\* extraction is one whose supplied value cannot be coerced to its declared
\* int, float or bool, the answer is status 400 with the error naming that
\* parameter and type, whatever the value is; so never status 500.
C18_CoercionFailureIs400 ==
    (served > 0 /\ \E i \in Params : Stops(i)) =>
        LET i == First({j \in Params : Stops(j)})
        IN  CoercionFails(i) =>
                response = [status |-> 400,
                            error |-> InvalidType(func.parameters[i].name,
                                                  func.parameters[i].annotation)]

\* the arguments of the call made for the last request
LastCall == calls[Len(calls)]

\* C19: when every parameter the request lacks has a default, and what the
\* request carries is accepted, func is invoked with exactly the default for
\* each absent parameter and, its body returning, the answer is status 200;
\* whatever the declared type and the default.
C19_AbsentGetsDefault ==
    ( /\ served > 0
      /\ \E i \in Params : Supplied(i) = PyNone
      /\ \A i \in Params : ~IsMissing(i) /\ ~CoercionFails(i) ) =>
        /\ invoked
        /\ ~func.body_raises => response.status = 200
        /\ \A i \in Params :
             Supplied(i) = PyNone =>
                 LastCall[i] = <<func.parameters[i].name, func.parameters[i].default>>

\* C20: when the body of func raises, the answer is status 500 with the
\* message of the exception and the server goes on answering; and status 500
\* is given only when func was invoked and its body raised.
C20_Only500FromBody ==
    served > 0 =>
        /\ (invoked /\ func.body_raises) =>
             response = [status |-> 500, error |-> ExceptionMessage("BodyError")]
        /\ response.status = 500 => (invoked /\ func.body_raises)
        /\ served < MaxRequests => ENABLED route

\* ---------------------------------------------------------------- C21
\* C21: once flask_app.py is written by a build, the endpoints array of its
\* health-check route has one entry per endpoint of the builder, in the order
\* of the builder's list and with that endpoint's method and path, and there
\* is one route per endpoint, the i-th route and the i-th entry naming the
\* same method and path.
C21_HealthListsEveryRoute ==
    "flask_app" \in written =>
        LET app == output_dir.flask_app.content
            n == Len(builder.endpoints)
        IN  /\ Len(app.health) = n
            /\ Len(app.routes) = n
            /\ \A i \in 1..n :
                   /\ app.health[i].method = builder.endpoints[i].method
                   /\ app.health[i].path = builder.endpoints[i].path
                   /\ app.routes[i].func_name = builder.endpoints[i].func_name
                   /\ app.routes[i].method = app.health[i].method
                   /\ app.routes[i].path = app.health[i].path

\* flask_app.py is written for two endpoints that differ in method
C21_Witness ==
    /\ "flask_app" \in written
    /\ Len(builder.endpoints) >= 2
    /\ builder.endpoints[1].method # builder.endpoints[2].method
    /\ Len(output_dir.flask_app.content.health) >= 2

\* ---------------------------------------------------------------- C22
\* the characters that end the package name of a requirement line
SpecifierChars == {"<", ">", "=", "!", "~", "[", ";", " "}

RECURSIVE NamePart(_)
NamePart(s) ==
    IF s = <<>> \/ Head(s) \in SpecifierChars
    THEN <<>>
    ELSE <<Head(s)>> \o NamePart(Tail(s))

\* the package a requirement line names, whatever specifier follows the name
PackageOf(line) == Lower(NamePart(LStrip(line)))

\* the lines of a requirements text that name the package
LinesNaming(lines, package) ==
    { i \in 1..Len(lines) : PackageOf(lines[i]) = package }

NeededPackages ==
    {<<"f","l","a","s","k">>, <<"g","u","n","i","c","o","r","n">>}
    \cup (IF builder.wandb_enabled THEN {<<"w","e","a","v","e">>} ELSE {})

\* C22: the requirements.txt written by a build starts with the caller's
\* requirements file unchanged when there is one, and names flask, gunicorn
\* and (with instrumentation on) weave on exactly one line each, whatever
\* version specifier the caller's file uses for them.
C22_NeededPackagesOnce ==
    "requirements" \in written =>
        LET out == output_dir.requirements.content
        IN  /\ reqFile.exists =>
                  /\ Len(out) >= Len(reqFile.lines)
                  /\ SubSeq(out, 1, Len(reqFile.lines)) = reqFile.lines
            /\ \A p \in NeededPackages : Cardinality(LinesNaming(out, p)) = 1

\* ---------------------------------------------------------------- C23
\* the lines that make up the declarative marking of a source file: the
\* getmethatdawg import and every line of an expose decorator call
IsMarkingLine(line) ==
    line.kind \in {"import", "from_import", "decorator", "decorator_close",
                   "alias_decorator"}

IsOtherLine(line) == ~IsMarkingLine(line)

\* a line the builder adds for instrumentation
IsWeaveLine(line) == line.kind \in {"import weave", "weave.op"}

IsCopiedLine(line) == ~IsWeaveLine(line)

\* C23: in declarative mode the user_module.py written by a build holds no
\* line of the declarative marking (import line, decorator line, closing line
\* of a decorator call, decorator through the imported name) and holds every
\* other line of the source unchanged and in order; in auto-detect mode
\* without instrumentation it equals the source.
C23_MarkingRemovedRestKept ==
    "user_module" \in written =>
        LET out == output_dir.user_module.content
        IN  /\ ~builder.auto_detect =>
                  SelectSeq(out, IsCopiedLine)
                      = SelectSeq(SourceLines(source_file), IsOtherLine)
            /\ (builder.auto_detect /\ ~builder.wandb_enabled) =>
                  out = SourceLines(source_file)

\* ---------------------------------------------------------------- C24
\* what one application of expose(method, path, auth) to a function must
\* register: GET when no method is given, "/" and the function's name when no
\* path is given, the auth marker as given
IsRegistrationOf(e, call, func_name) ==
    /\ e.func_name = func_name
    /\ e.method = (IF call.method = None THEN GET ELSE Upper(call.method))
    /\ e.path = (IF call.path = None THEN <<"/">> \o func_name ELSE call.path)
    /\ e.auth = call.auth

\* the applications of expose made when the module body runs, in the order
\* they are made: definition by definition, and for one definition from the
\* decorator next to the def line upwards
RECURSIVE Applications(_)
Applications(defs) ==
    IF defs = <<>>
    THEN <<>>
    ELSE LET d == Head(defs)
             n == Len(d.exposes)
         IN  (IF d.scope = "function"
              THEN <<>>
              ELSE [k \in 1..n |-> [call |-> d.exposes[n + 1 - k], func_name |-> d.name]])
             \o Applications(Tail(defs))

\* C24: executing a module appends to the shared registry exactly one
\* Endpoint per application of expose, in application order, after the
\* entries already there, with method GET and path "/" + function name when
\* they are left out; get_endpoints() hands the builder the registrations in
\* that order.
C24_OneEndpointPerApplication ==
    [][(pc = "init" /\ ~builder.auto_detect /\ source_file.syntax_ok) =>
          LET apps == Applications(source_file.defs)
              old == Len(_registry)
          IN  /\ Len(_registry') = old + Len(apps)
              /\ SubSeq(_registry', 1, old) = _registry
              /\ \A k \in 1..Len(apps) :
                     IsRegistrationOf(_registry'[old + k], apps[k].call, apps[k].func_name)
              /\ pc' = "analyzed" => builder'.endpoints = _registry']_vars

\* a function decorated twice, once without arguments, has been registered:
\* the lower decorator first, the argument-less one with GET and "/get_u"
C24_Witness ==
    /\ pc = "analyzed"
    /\ ~builder.auto_detect
    /\ source_file = SrcDefault
    /\ Len(_registry) = 2
    /\ _registry[1].method = POST /\ _registry[1].path = PathX
    /\ _registry[2].method = GET /\ _registry[2].path = <<"/">> \o get_u
    /\ builder.endpoints = _registry

\* ---------------------------------------------------------------- C25
\* the files a build takes as input: the source file, the .env file and the
\* caller's requirements file it has opened
InputFiles == opened_r

\* C25: every path a build opens for writing lies in its output directory,
\* the output directory is made once, by the constructor, and no file the
\* build reads as input (source, .env, caller's requirements) is opened for
\* writing.
C25_WritesOnlyOutputsNeverInputs ==
    /\ \A p \in opened_w : parent(p) = args.output_dir
    /\ mkdirs \in {<<>>, <<args.output_dir>>}
    /\ step # "main" => mkdirs = <<args.output_dir>>
    /\ opened_w \cap InputFiles = {}

\* ---------------------------------------------------------------- C26
\* the positions of build() from which the next step reads the .env mapping
\* and partitions it with _categorize_env_vars before it writes
PartitionedBeforeWriting == {"reqs", "secrets", "script"}

\* a step of the build writes an artifact
WritesArtifact == written' # written /\ written' # {}

\* C26: the phases of a build follow one another strictly, the configuration
\* being read and partitioned into public and sensitive entries before the
\* first artifact is written: every step that writes an artifact is taken
\* after the partition has been computed.
C26_PartitionBeforeFirstWrite ==
    [][WritesArtifact => pc \in PartitionedBeforeWriting]_vars

\* ---------------------------------------------------------------- C27
\* the functions the heuristic accepts, taken in the order of their def
\* lines in the file
InSourceOrder(src) == DetectAll(src.defs, <<>>)

\* C27: after the first analyze_source of a builder in heuristic mode, its
\* list of detected endpoints is in the order of the definitions in the
\* source file (and so the same for every builder made on the same file).
C27_DetectedInSourceOrder ==
    (builder.auto_detect /\ pc = "analyzed" /\ buildCalls = 0 /\ source_file.syntax_ok) =>
        builder.auto_detected_endpoints = InSourceOrder(source_file)

\* ---------------------------------------------------------------- C28
\* the definitions of the source that are endpoint functions of the build,
\* each by its name and the indentation of its def line: the decorated ones
\* in declarative mode, the ones the heuristic accepts in heuristic mode
EndpointDefs ==
    { <<source_file.defs[i].name, IndentOf(source_file.defs[i])>> :
        i \in { j \in 1..Len(source_file.defs) :
                  IF builder.auto_detect
                  THEN /\ source_file.syntax_ok
                       /\ _analyze_function_for_endpoint(source_file.defs[j]) # <<>>
                  ELSE source_file.defs[j].exposes # <<>> } }

\* build() is running, or has returned, for the second time on the builder
Rebuilding == (buildCalls >= 1 /\ pc # "done") \/ buildCalls >= 2

\* C28: with instrumentation on, user_module.py has one marker line right
\* before the def line of every endpoint function, indented like it, and no
\* marker before any other def line or anywhere else; a second build() of
\* the same builder writes the same user_module.py.
C28_OneMarkerPerEndpointFunction ==
    ("user_module" \in written /\ builder.wandb_enabled) =>
        LET out == output_dir.user_module.content
            Marked(i) == i > 1 /\ out[i - 1].kind = "weave.op"
        IN  /\ \A i \in 1..Len(out) :
                   /\ out[i].kind = "def" =>
                          (Marked(i) <=> /\ <<out[i].name, out[i].indent>> \in EndpointDefs
                                         /\ Head(out[i].name) # "_")
                   /\ out[i].kind = "weave.op" =>
                          /\ i < Len(out)
                          /\ out[i + 1].kind = "def"
                          /\ out[i + 1].indent = out[i].indent
                          /\ ~Marked(i)
            /\ Rebuilding => out = before.user_module.content

\* ---------------------------------------------------------------- C29
\* C29: when build() is about to return for the second time on one builder,
\* the builder's endpoints and auto_detected_endpoints and the flask_app.py
\* it wrote equal what they were when the first call returned.
C29_SecondBuildChangesNothing ==
    (pc = "toml" /\ buildCalls >= 1) =>
        /\ builder.endpoints = snapshot.endpoints
        /\ builder.auto_detected_endpoints = snapshot.auto_detected_endpoints
        /\ output_dir.flask_app.content = snapshot.flask_app

\* ---------------------------------------------------------------- C30
\* the heuristic accepts no function of the source file
NoneAccepted(src) ==
    \/ ~src.syntax_ok
    \/ \A i \in 1..Len(src.defs) : _analyze_function_for_endpoint(src.defs[i]) = <<>>

\* the artifacts every successful build writes (secrets.json is written only
\* when the .env file holds secrets)
EveryArtifact ==
    {"user_module", "flask_app", "dockerfile", "requirements", "fly_toml",
     "deploy_script"}

\* C30: a first build in auto-detect mode of a file from which the heuristic
\* accepts nothing does not fail, and when it returns every artifact is
\* written and flask_app.py has no route besides the health check, whose
\* endpoints list is empty; a build fails for want of endpoints only in
\* declarative mode.
C30_AutoDetectBuildsWithoutEndpoints ==
    /\ err = "NoEndpoints" => ~builder.auto_detect
    /\ (builder.auto_detect /\ NoneAccepted(source_file) /\ buildCalls = 0
            /\ pc \notin {"main", "init"}) =>
          /\ pc # "failed"
          /\ builder.endpoints = <<>>
          /\ pc = "toml" =>
                /\ EveryArtifact \subseteq written
                /\ output_dir.flask_app.content.routes = <<>>
                /\ output_dir.flask_app.content.health = <<>>

\* build() is about to return from an auto-detect build of a file that
\* defines only a private helper
C30_Witness ==
    /\ pc = "toml"
    /\ buildCalls = 0
    /\ builder.auto_detect
    /\ source_file = SrcNone
    /\ builder.endpoints = <<>>
    /\ EveryArtifact \subseteq written
    /\ output_dir.flask_app.content.health = <<>>
====
